---- MODULE Spec2Model ----
(***************************************************************************)
(* Model of the Speakap Node.js SDK (node/speakap.js): the signed-request  *)
(* codec (percentEncode, signedRequest, validateSignature) and the API     *)
(* wrapper (API constructor, delete/get/post/postAction/put/request).      *)
(*                                                                         *)
(* JavaScript values are tagged records, one field set per type, so that   *)
(* values of different types are comparable and never equal.  A string     *)
(* whose characters the code reads (parameters, bodies) is a sequence of   *)
(* one-character strings; a string the code only passes on is kept whole.  *)
(*                                                                         *)
(* SpecSig: payloads are signed, changed in transit and validated.         *)
(* Spec:    one API call from its invocation to its callback, against a    *)
(*          transport that answers, streams the body, or fails.            *)
(***************************************************************************)
EXTENDS Integers, Sequences, FiniteSets, TLC

VARIABLES
    params,     \* the ParameterSet handed to validateSignature: <<key, value>> pairs in insertion order
    now,        \* Date.now(), in ms
    tampered,   \* number of values changed since construction of the payload
    vsResult,   \* outcome of the last validateSignature call on the current params/now
    client,     \* the API object, or the failed construction
    call,       \* per call id: the state of one API call
    apiConfig,  \* the configuration new API(config) was called with
    output,     \* the last application of percentEncode or signedRequest and its result
    sessionStore, \* the session store: the serialised sessions it holds, the writes under way
    reqs,       \* per Express request: what the session middleware did with it
    uuids       \* the ids uuid.v4() has returned

vars == <<params, now, tampered, vsResult, client, call, apiConfig, output,
          sessionStore, reqs, uuids>>

(***************************************************************************)
(* JavaScript values                                                       *)
(***************************************************************************)
Undefined == [t |-> "undefined"]
Null == [t |-> "null"]
Bool(b) == [t |-> "bool", b |-> b]
Num(n) == [t |-> "num", n |-> n]
Str(s) == [t |-> "str", s |-> s]
\* a string the code only passes on or concatenates (header values, tokens, paths,
\* messages), kept whole
Text(x) == [t |-> "text", x |-> x]
\* an array: its elements in order
Arr(a) == [t |-> "arr", a |-> a]
\* a plain object: its own properties as <<key, value>> pairs in insertion order
Obj(o) == [t |-> "obj", o |-> o]
\* a function value (a callback)
Fn(id) == [t |-> "fn", id |-> id]
\* an Error instance raised by the transport
Err(e) == [t |-> "error", e |-> e]

\* ToBoolean: what `if (v)` and `v || d` test
Truthy(v) ==
    CASE v.t = "undefined" -> FALSE
      [] v.t = "null" -> FALSE
      [] v.t = "bool" -> v.b
      [] v.t = "num" -> v.n # 0
      [] v.t = "str" -> v.s # <<>>
      [] v.t = "text" -> v.x # ""
      [] OTHER -> TRUE

\* obj[key] for a plain object; undefined when the property is missing
RECURSIVE Lookup(_, _)
Lookup(pairs, key) ==
    IF pairs = <<>> THEN Undefined
    ELSE IF Head(pairs)[1] = key THEN Head(pairs)[2]
    ELSE Lookup(Tail(pairs), key)

HasKey(pairs, key) == \E i \in 1..Len(pairs) : pairs[i][1] = key

\* obj[key] = value: an existing property keeps its position, a new one is appended
SetKey(pairs, key, value) ==
    IF HasKey(pairs, key)
    THEN [i \in 1..Len(pairs) |-> IF pairs[i][1] = key THEN <<key, value>> ELSE pairs[i]]
    ELSE Append(pairs, <<key, value>>)

\* _.keys(obj): the own property names in insertion order
Keys(pairs) == [i \in 1..Len(pairs) |-> pairs[i][1]]

(***************************************************************************)
(* Strings                                                                 *)
(***************************************************************************)
\* The characters of the model in UTF-16 code unit order.
CodeOrder ==
    <<" ", "!", "\"", "#", "%", "&", "'", "(", ")", "*", "+", ",", "-", "/",
      "0", "1", "2", "3", "4", "5", "6", "7", "8", "9", ":", "=",
      "A", "D", "E", "I", "O", "T", "Z", "[", "]",
      "a", "b", "c", "d", "e", "f", "g", "i", "j", "k", "l", "n", "o", "r", "s",
      "t", "u", "w", "x", "y", "z", "{", "}", "é">>

CharCode(c) == CHOOSE i \in 1..Len(CodeOrder) : CodeOrder[i] = c

Digits == <<"0", "1", "2", "3", "4", "5", "6", "7", "8", "9">>
IsDigit(c) == \E i \in 1..10 : Digits[i] = c
DigitVal(c) == (CHOOSE i \in 1..10 : Digits[i] = c) - 1

\* a < b as JavaScript compares strings (code unit order); what Array.prototype.sort uses
RECURSIVE StrLess(_, _)
StrLess(a, b) ==
    IF b = <<>> THEN FALSE
    ELSE IF a = <<>> THEN TRUE
    ELSE IF Head(a) = Head(b) THEN StrLess(Tail(a), Tail(b))
    ELSE CharCode(Head(a)) < CharCode(Head(b))

\* insert a string in a sorted sequence of strings
RECURSIVE InsertSorted(_, _)
InsertSorted(sorted, k) ==
    IF sorted = <<>> THEN <<k>>
    ELSE IF StrLess(k, Head(sorted)) THEN <<k>> \o sorted
    ELSE <<Head(sorted)>> \o InsertSorted(Tail(sorted), k)

\* Sort that leaves the keys in insertion order
SortInsertionOrder(keys) == keys

\* keys.sort()
RECURSIVE Sort(_)
Sort(keys) ==
    IF keys = <<>> THEN <<>> ELSE InsertSorted(Sort(Tail(keys)), Head(keys))

\* _.without(keys, key)
Without(keys, key) == SelectSeq(keys, LAMBDA k : k # key)

\* parts.join(sep)
RECURSIVE Join(_, _)
Join(parts, sep) ==
    IF parts = <<>> THEN <<>>
    ELSE IF Len(parts) = 1 THEN parts[1]
    ELSE parts[1] \o sep \o Join(Tail(parts), sep)

\* decimal digits of a natural number
RECURSIVE NatToString(_)
NatToString(n) ==
    IF n < 10 THEN <<Digits[n + 1]>>
    ELSE NatToString(n \div 10) \o <<Digits[(n % 10) + 1]>>

\* String(v): the conversion encodeURIComponent applies to its argument
RECURSIVE JsString(_)
JsString(v) ==
    CASE v.t = "str" -> v.s
      [] v.t = "num" -> IF v.n < 0 THEN <<"-">> \o NatToString(-v.n) ELSE NatToString(v.n)
      [] v.t = "undefined" -> <<"u", "n", "d", "e", "f", "i", "n", "e", "d">>
      [] v.t = "null" -> <<"n", "u", "l", "l">>
      [] v.t = "bool" -> IF v.b THEN <<"t", "r", "u", "e">> ELSE <<"f", "a", "l", "s", "e">>
      [] v.t = "arr" ->
            Join([i \in 1..Len(v.a) |->
                    IF v.a[i].t \in {"null", "undefined"} THEN <<>> ELSE JsString(v.a[i])],
                 <<",">>)
      [] v.t = "obj" ->
            <<"[", "o", "b", "j", "e", "c", "t", " ", "O", "b", "j", "e", "c", "t", "]">>

(***************************************************************************)
(* Signed-request codec                                                    *)
(***************************************************************************)
SIGNATURE_WINDOW_SIZE == 60 * 1000

SIGNATURE == <<"s", "i", "g", "n", "a", "t", "u", "r", "e">>
ISSUED_AT == <<"i", "s", "s", "u", "e", "d", "A", "t">>

\* characters encodeURIComponent leaves alone: A-Z a-z 0-9 - _ . ! ~ * ' ( )
Unreserved ==
    {"A", "B", "C", "D", "E", "F", "I", "O", "T", "Z", "a", "b", "c", "d", "e", "f", "g",
     "i", "j", "k", "l", "n", "o", "r", "s", "t", "u", "w", "x", "y", "z", "0", "1", "2", "3", "4", "5", "6", "7", "8", "9",
     "-", "!", "'", "(", ")", "*"}

\* the %XX escape of the UTF-8 bytes of a character that is not unreserved
Escape(c) ==
    CASE c = " " -> <<"%", "2", "0">>
      [] c = "\"" -> <<"%", "2", "2">>
      [] c = "#" -> <<"%", "2", "3">>
      [] c = "%" -> <<"%", "2", "5">>
      [] c = "&" -> <<"%", "2", "6">>
      [] c = "+" -> <<"%", "2", "B">>
      [] c = "," -> <<"%", "2", "C">>
      [] c = "/" -> <<"%", "2", "F">>
      [] c = ":" -> <<"%", "3", "A">>
      [] c = "=" -> <<"%", "3", "D">>
      [] c = "[" -> <<"%", "5", "B">>
      [] c = "]" -> <<"%", "5", "D">>
      [] c = "{" -> <<"%", "7", "B">>
      [] c = "}" -> <<"%", "7", "D">>
      [] c = "é" -> <<"%", "C", "3", "%", "A", "9">>

\* the strings of a sequence put one after the other
RECURSIVE Concat(_)
Concat(parts) ==
    IF parts = <<>> THEN <<>>
    ELSE IF Len(parts) = 1 THEN parts[1]
    ELSE Concat(SubSeq(parts, 1, Len(parts) \div 2))
         \o Concat(SubSeq(parts, (Len(parts) \div 2) + 1, Len(parts)))

\* encodeURIComponent(s) of a string: each character is kept or escaped
EncodeURIComponentStr(s) ==
    Concat([i \in 1..Len(s) |-> IF s[i] \in Unreserved THEN <<s[i]>> ELSE Escape(s[i])])

\* encodeURIComponent(v): the argument is converted to a string first
EncodeURIComponent(v) == EncodeURIComponentStr(JsString(v))

\* s.replace(c, rep) with a string pattern: only the first occurrence is replaced
ReplaceFirst(s, c, rep) ==
    IF \E i \in 1..Len(s) : s[i] = c
    THEN LET first == CHOOSE i \in 1..Len(s) : s[i] = c /\ \A j \in 1..(i - 1) : s[j] # c
         IN  SubSeq(s, 1, first - 1) \o rep \o SubSeq(s, first + 1, Len(s))
    ELSE s

percentEncode(v) ==
    ReplaceFirst(
      ReplaceFirst(
        ReplaceFirst(
          ReplaceFirst(
            ReplaceFirst(EncodeURIComponent(v), "!", <<"%", "2", "1">>),
            "'", <<"%", "2", "7">>),
          "(", <<"%", "2", "8">>),
        ")", <<"%", "2", "9">>),
      "*", <<"%", "2", "A">>)

\* _.map(keys, key => percentEncode(key) + "=" + percentEncode(params[key])).join("&")
EncodePairs(keys, ps) ==
    Join([i \in 1..Len(keys) |->
            percentEncode(Str(keys[i])) \o <<"=">> \o percentEncode(Lookup(ps, keys[i]))],
         <<"&">>)

signedRequest(ps) ==
    EncodePairs(Append(Sort(Without(Keys(ps), SIGNATURE)), SIGNATURE), ps)

\* the queryString validateSignature signs: all parameters but the signature, keys ascending
QueryString(ps) == EncodePairs(Without(Sort(Keys(ps)), SIGNATURE), ps)

\* crypto.createHmac("sha256", secret).update(msg).digest("base64"), idealised as
\* collision-free: the digest determines the secret and the message
HmacSha256Base64(secret, msg) == <<"#">> \o secret \o <<"#">> \o msg

\* a time value: an integer number of ms, or NaN (valid = FALSE)
Time(ms) == [valid |-> TRUE, ms |-> ms]
NaN == [valid |-> FALSE, ms |-> 0]

IsLeapYear(y) == (y % 4 = 0 /\ y % 100 # 0) \/ y % 400 = 0
DaysInMonth(y, m) ==
    IF m = 2 THEN (IF IsLeapYear(y) THEN 29 ELSE 28)
    ELSE IF m \in {4, 6, 9, 11} THEN 30 ELSE 31
RECURSIVE DaysBeforeMonth(_, _)
DaysBeforeMonth(y, m) ==
    IF m = 1 THEN 0 ELSE DaysBeforeMonth(y, m - 1) + DaysInMonth(y, m - 1)
\* days from 1970-01-01 to the first day of year y (y >= 1970)
DayFromYear(y) ==
    365 * (y - 1970) + ((y - 1969) \div 4) - ((y - 1901) \div 100) + ((y - 1601) \div 400)

Num2(s, i) == 10 * DigitVal(s[i]) + DigitVal(s[i + 1])

\* Date.parse(s) for the ISO 8601 form YYYY-MM-DDTHH:mm:ssZ (from 1970 on); any other
\* string of the model is no date and gives NaN
DateParse(s) ==
    IF /\ Len(s) = 20
       /\ s[5] = "-" /\ s[8] = "-" /\ s[11] = "T" /\ s[14] = ":" /\ s[17] = ":" /\ s[20] = "Z"
       /\ \A i \in {1, 2, 3, 4, 6, 7, 9, 10, 12, 13, 15, 16, 18, 19} : IsDigit(s[i])
    THEN LET y == 100 * Num2(s, 1) + Num2(s, 3)
             m == Num2(s, 6)
             d == Num2(s, 9)
             h == Num2(s, 12)
             mi == Num2(s, 15)
             sec == Num2(s, 18)
         IN  IF /\ y >= 1970 /\ m \in 1..12 /\ d >= 1 /\ d <= DaysInMonth(y, m)
                /\ h < 24 /\ mi < 60 /\ sec < 60
             THEN Time(((((DayFromYear(y) + DaysBeforeMonth(y, m) + d - 1) * 24 + h) * 60
                          + mi) * 60 + sec) * 1000)
             ELSE NaN
    ELSE NaN

\* new Date(v).getTime(): a string is parsed, anything else is converted to a number
GetTime(v) ==
    CASE v.t = "str" -> DateParse(v.s)
      [] v.t = "num" -> Time(v.n)
      [] v.t = "null" -> Time(0)
      [] v.t = "bool" -> Time(IF v.b THEN 1 ELSE 0)
      [] v.t = "undefined" -> NaN
      [] OTHER -> DateParse(JsString(v))

\* a > b on time values: false when either side is NaN
TimeGreater(a, b) == a.valid /\ b.valid /\ a.ms > b.ms
\* a + n on a time value
TimePlus(a, n) == IF a.valid THEN Time(a.ms + n) ELSE NaN

\* validateSignature with the window compared before the digests
validateSignatureWindowFirst(ps, appSecret, t) ==
    LET queryString == QueryString(ps)
        computedHash == Str(HmacSha256Base64(appSecret, queryString))
        issuedAt == GetTime(Lookup(ps, ISSUED_AT))
    IN  IF TimeGreater(Time(t), TimePlus(issuedAt, SIGNATURE_WINDOW_SIZE))
        THEN "Expired signature"
        ELSE IF computedHash # Lookup(ps, SIGNATURE) THEN "Invalid signature"
             ELSE "ok"

\* validateSignature(params, appSecret) called when Date.now() = t: "ok" when it returns,
\* else the error it throws
validateSignature(ps, appSecret, t) ==
    LET queryString == QueryString(ps)
        computedHash == Str(HmacSha256Base64(appSecret, queryString))
        issuedAt == GetTime(Lookup(ps, ISSUED_AT))
    IN  IF computedHash # Lookup(ps, SIGNATURE) THEN "Invalid signature"
        ELSE IF TimeGreater(Time(t), TimePlus(issuedAt, SIGNATURE_WINDOW_SIZE))
             THEN "Expired signature"
             ELSE "ok"

(***************************************************************************)
(* Signed requests: the payloads, the signer, the clock                    *)
(***************************************************************************)
MaxTamper == 1

KeyA == <<"a">>
KeyB == <<"b">>

\* the secret of the application, and a secret that is not the application's
AppSecret == <<"s", "3">>
OtherSecret == <<"x">>
Secrets == {AppSecret, OtherSecret}

StrXY == Str(<<"x", " ", "y">>)
StrXZ == Str(<<"x", " ", "z">>)
ObjX1 == Obj(<<<<(<<"x">>), Num(1)>>>>)
ObjX2 == Obj(<<<<(<<"x">>), Num(2)>>>>)

\* 1970-01-01T00:00:01Z, the instant 1000
IsoIssuedAt ==
    Str(<<"1", "9", "7", "0", "-", "0", "1", "-", "0", "1", "T",
          "0", "0", ":", "0", "0", ":", "0", "1", "Z">>)

NotSet == [t |-> "notset"]

\* the values a request parameter takes: strings, or structured values
ValuesOf(key) ==
    IF key = KeyA THEN {Str(<<"1">>)}
    ELSE IF key = KeyB THEN {StrXY, StrXZ, ObjX1, ObjX2}
    ELSE IF key = ISSUED_AT THEN {Num(1000), IsoIssuedAt, Str(<<"x">>)}
    ELSE {}

\* orders in which the parameters were inserted in the payload
KeyOrders == {<<KeyA, KeyB, ISSUED_AT>>, <<ISSUED_AT, KeyB, KeyA>>}

\* the instants at which the clock is read
Times == {0, 1000, 1000 + SIGNATURE_WINDOW_SIZE, 1000 + SIGNATURE_WINDOW_SIZE + 1}

\* the payload with the keys of `order` that `assign` sets, in that order
RECURSIVE BuildParams(_, _)
BuildParams(order, assign) ==
    IF order = <<>> THEN <<>>
    ELSE (IF assign[Head(order)] = NotSet THEN <<>>
          ELSE <<<<Head(order), assign[Head(order)]>>>>)
         \o BuildParams(Tail(order), assign)

NoClient == [constructed |-> FALSE, threw |-> FALSE]
NoConfig == [scheme |-> Undefined]
NoOutput == [fn |-> "none"]
\* a store that holds nothing and has no write under way
EmptyStore == [data |-> {}, pending |-> {}]

InitSig ==
    /\ \E order \in KeyOrders :
         \E assign \in [{KeyA, KeyB, ISSUED_AT} -> {NotSet} \cup UNION {ValuesOf(k) : k \in {KeyA, KeyB, ISSUED_AT}}] :
            /\ \A k \in {KeyA, KeyB, ISSUED_AT} : assign[k] \in {NotSet} \cup ValuesOf(k)
            /\ params = BuildParams(order, assign)
    /\ now = 0
    /\ tampered = 0
    /\ vsResult = "none"
    /\ client = NoClient
    /\ call = <<>>
    /\ apiConfig = NoConfig
    /\ output = NoOutput
    /\ sessionStore = EmptyStore
    /\ reqs = <<>>
    /\ uuids = {}

\* the platform (or a forger) signs the payload with a secret
Sign(secret) ==
    /\ params' = SetKey(params, SIGNATURE, Str(HmacSha256Base64(secret, QueryString(params))))
    /\ params' # params
    /\ vsResult' = "none"
    /\ output' = NoOutput
    /\ UNCHANGED <<now, tampered, client, call, apiConfig, sessionStore, reqs, uuids>>

\* the value of a parameter other than the signature is changed in transit
Tamper(key, value) ==
    /\ tampered < MaxTamper
    /\ key # SIGNATURE
    /\ HasKey(params, key)
    /\ Lookup(params, key) # value
    /\ params' = SetKey(params, key, value)
    /\ tampered' = tampered + 1
    /\ vsResult' = "none"
    /\ output' = NoOutput
    /\ UNCHANGED <<now, client, call, apiConfig, sessionStore, reqs, uuids>>

\* time passes
Tick(t) ==
    /\ t > now
    /\ now' = t
    /\ vsResult' = "none"
    /\ UNCHANGED <<params, tampered, client, call, apiConfig, output, sessionStore, reqs, uuids>>

\* the application calls validateSignature(params, appSecret)
Validate ==
    /\ vsResult = "none"
    /\ vsResult' = validateSignature(params, AppSecret, now)
    /\ UNCHANGED <<params, now, tampered, client, call, apiConfig, output, sessionStore, reqs, uuids>>

NextSig ==
    \/ \E secret \in Secrets : Sign(secret)
    \/ \E key \in {KeyA, KeyB, ISSUED_AT} : \E value \in ValuesOf(key) : Tamper(key, value)
    \/ \E t \in Times : Tick(t)
    \/ Validate

SpecSig == InitSig /\ [][NextSig]_vars

(***************************************************************************)
(* Signed requests: the encoder applied to strings and to payloads         *)
(***************************************************************************)
\* the strings percentEncode is applied to: with none of ! ' ( ) *, with each of them
\* once, and with one of them more than once
EncodeInputs ==
    {Str(<<"a", " ", "b">>), Str(<<"!", "'", "(", ")", "*">>), Str(<<"!", "!">>),
     Str(<<"(", "1", ")", "(", "2", ")">>)}

\* the instant the clock is read at after the window of every payload has passed
LateTimes == {1000 + SIGNATURE_WINDOW_SIZE + 1}

\* the payload is rebuilt with two neighbouring parameters inserted in the other order
Reorder(i) ==
    /\ i \in 1..(Len(params) - 1)
    /\ params' = [params EXCEPT ![i] = params[i + 1], ![i + 1] = params[i]]
    /\ vsResult' = "none"
    /\ output' = NoOutput
    /\ UNCHANGED <<now, tampered, client, call, apiConfig, sessionStore, reqs, uuids>>

\* the application calls percentEncode(v)
PercentEncode(v) ==
    /\ output' = [fn |-> "percentEncode", arg |-> v, result |-> percentEncode(v)]
    /\ UNCHANGED <<params, now, tampered, vsResult, client, call, apiConfig, sessionStore, reqs, uuids>>

\* the application calls signedRequest(params)
SignedRequest ==
    /\ output' = [fn |-> "signedRequest", arg |-> params, result |-> signedRequest(params)]
    /\ UNCHANGED <<params, now, tampered, vsResult, client, call, apiConfig, sessionStore, reqs, uuids>>

NextCodec ==
    \/ Sign(AppSecret)
    \/ \E i \in 1..3 : Reorder(i)
    \/ \E t \in LateTimes : Tick(t)
    \/ Validate
    \/ \E v \in EncodeInputs : PercentEncode(v)
    \/ SignedRequest

SpecCodec == InitSig /\ [][NextCodec]_vars

(***************************************************************************)
(* JSON                                                                    *)
(***************************************************************************)
Fail == [ok |-> FALSE, v |-> Undefined, i |-> 0]
Parsed(v, i) == [ok |-> TRUE, v |-> v, i |-> i]

RECURSIVE SkipWs(_, _)
SkipWs(s, i) == IF i <= Len(s) /\ s[i] = " " THEN SkipWs(s, i + 1) ELSE i

\* s has the characters of lit from position i on
Matches(s, i, lit) ==
    /\ i + Len(lit) - 1 <= Len(s)
    /\ \A k \in 1..Len(lit) : s[i + k - 1] = lit[k]

\* the digits of a number from position i on, with the value read so far
RECURSIVE ParseDigits(_, _, _)
ParseDigits(s, i, n) ==
    IF i <= Len(s) /\ IsDigit(s[i]) THEN ParseDigits(s, i + 1, 10 * n + DigitVal(s[i]))
    ELSE Parsed(Num(n), i)

\* the characters of a string up to its closing quote (no escapes in the model's bodies)
RECURSIVE ParseChars(_, _, _)
ParseChars(s, i, acc) ==
    IF i > Len(s) THEN Fail
    ELSE IF s[i] = "\"" THEN Parsed(Str(acc), i + 1)
    ELSE ParseChars(s, i + 1, Append(acc, s[i]))

RECURSIVE ParseValue(_, _)
RECURSIVE ParseElements(_, _, _)
RECURSIVE ParseMembers(_, _, _)

\* a JSON value from position i on: integers without sign, fraction or exponent,
\* strings without escapes, literals, arrays and objects
ParseValue(s, i0) ==
    LET i == SkipWs(s, i0)
    IN  IF i > Len(s) THEN Fail
        ELSE IF Matches(s, i, <<"n", "u", "l", "l">>) THEN Parsed(Null, i + 4)
        ELSE IF Matches(s, i, <<"t", "r", "u", "e">>) THEN Parsed(Bool(TRUE), i + 4)
        ELSE IF Matches(s, i, <<"f", "a", "l", "s", "e">>) THEN Parsed(Bool(FALSE), i + 5)
        ELSE IF s[i] = "0" THEN Parsed(Num(0), i + 1)
        ELSE IF IsDigit(s[i]) THEN ParseDigits(s, i, 0)
        ELSE IF s[i] = "\"" THEN ParseChars(s, i + 1, <<>>)
        ELSE IF s[i] = "[" THEN
            (IF SkipWs(s, i + 1) <= Len(s) /\ s[SkipWs(s, i + 1)] = "]"
             THEN Parsed(Arr(<<>>), SkipWs(s, i + 1) + 1)
             ELSE ParseElements(s, i + 1, <<>>))
        ELSE IF s[i] = "{" THEN
            (IF SkipWs(s, i + 1) <= Len(s) /\ s[SkipWs(s, i + 1)] = "}"
             THEN Parsed(Obj(<<>>), SkipWs(s, i + 1) + 1)
             ELSE ParseMembers(s, i + 1, <<>>))
        ELSE Fail

\* the elements of an array after "[" or ",": a value, then "," or "]"
ParseElements(s, i, acc) ==
    LET e == ParseValue(s, i)
        j == SkipWs(s, e.i)
    IN  IF ~e.ok \/ j > Len(s) THEN Fail
        ELSE IF s[j] = "]" THEN Parsed(Arr(Append(acc, e.v)), j + 1)
        ELSE IF s[j] = "," THEN ParseElements(s, j + 1, Append(acc, e.v))
        ELSE Fail

\* the members of an object after "{" or ",": "key" : value, then "," or "}"
ParseMembers(s, i0, acc) ==
    LET i == SkipWs(s, i0)
        k == IF i <= Len(s) /\ s[i] = "\"" THEN ParseChars(s, i + 1, <<>>) ELSE Fail
        c == SkipWs(s, k.i)
        e == IF k.ok /\ c <= Len(s) /\ s[c] = ":" THEN ParseValue(s, c + 1) ELSE Fail
        j == SkipWs(s, e.i)
    IN  IF ~e.ok \/ j > Len(s) THEN Fail
        ELSE IF s[j] = "}" THEN Parsed(Obj(SetKey(acc, k.v.s, e.v)), j + 1)
        ELSE IF s[j] = "," THEN ParseMembers(s, j + 1, SetKey(acc, k.v.s, e.v))
        ELSE Fail

\* JSON.parse(s): ok = FALSE when it throws a SyntaxError
JSONParse(s) ==
    LET r == ParseValue(s, 1)
    IN  IF r.ok /\ SkipWs(s, r.i) = Len(s) + 1 THEN r ELSE Fail

\* JSON.stringify(v): undefined for undefined and functions
RECURSIVE JSONStringify(_)
JSONStringify(v) ==
    CASE v.t \in {"undefined", "fn"} -> Undefined
      [] v.t = "str" -> Str(<<"\"">> \o v.s \o <<"\"">>)
      [] v.t \in {"null", "num", "bool"} -> Str(JsString(v))
      [] v.t = "arr" ->
            Str(<<"[">>
                \o Join([i \in 1..Len(v.a) |->
                           IF JSONStringify(v.a[i]) = Undefined THEN <<"n", "u", "l", "l">>
                           ELSE JSONStringify(v.a[i]).s], <<",">>)
                \o <<"]">>)
      [] v.t = "obj" ->
            LET kept == SelectSeq(v.o, LAMBDA kv : JSONStringify(kv[2]) # Undefined)
            IN  Str(<<"{">>
                    \o Join([i \in 1..Len(kept) |->
                               <<"\"">> \o kept[i][1] \o <<"\"", ":">>
                               \o JSONStringify(kept[i][2]).s], <<",">>)
                    \o <<"}">>)

(***************************************************************************)
(* API wrapper                                                             *)
(***************************************************************************)
K_accept == <<"a", "c", "c", "e", "p", "t">>
K_accessToken == <<"a", "c", "c", "e", "s", "s", "T", "o", "k", "e", "n">>
K_contentType == <<"c", "o", "n", "t", "e", "n", "t", "T", "y", "p", "e">>
K_code == <<"c", "o", "d", "e">>
K_message == <<"m", "e", "s", "s", "a", "g", "e">>
K_description == <<"d", "e", "s", "c", "r", "i", "p", "t", "i", "o", "n">>
K_requestError == <<"r", "e", "q", "u", "e", "s", "t", "E", "r", "r", "o", "r">>

\* v[key] of any value: undefined unless v is a plain object with that property
Prop(v, key) == IF v.t = "obj" THEN Lookup(v.o, key) ELSE Undefined

\* _.isObject(v), _.isFunction(v)
IsObject(v) == v.t \in {"obj", "arr", "fn", "error"}
IsFunction(v) == v.t = "fn"

\* a || b
Or(a, b) == IF Truthy(a) THEN a ELSE b

\* API without the check of config.scheme
APIAnyScheme(config) ==
    [constructed |-> TRUE,
     threw |-> FALSE,
     scheme |-> config.scheme,
     hostname |-> config.hostname,
     appId |-> config.appId,
     appSecret |-> config.appSecret,
     apiVersion |-> Or(config.apiVersion, Text("1.1")),
     accessToken |->
         IF Truthy(config.appId) /\ Truthy(config.appSecret)
         THEN Text(config.appId.x \o "_" \o config.appSecret.x)
         ELSE Undefined]

\* new API(config): the object constructed, or the Error thrown
API(config) ==
    IF config.scheme # Text("http") /\ config.scheme # Text("https")
    THEN [constructed |-> FALSE, threw |-> TRUE]
    ELSE [constructed |-> TRUE,
          threw |-> FALSE,
          scheme |-> config.scheme,
          hostname |-> config.hostname,
          appId |-> config.appId,
          appSecret |-> config.appSecret,
          apiVersion |-> Or(config.apiVersion, Text("1.1")),
          accessToken |->
              IF Truthy(config.appId) /\ Truthy(config.appSecret)
              THEN Text(config.appId.x \o "_" \o config.appSecret.x)
              ELSE Undefined]

\* number of bytes of the UTF-8 encoding of a character
Utf8Bytes(c) == IF c = "é" THEN 2 ELSE 1
RECURSIVE ByteLength(_)
ByteLength(s) == IF s = <<>> THEN 0 ELSE Utf8Bytes(Head(s)) + ByteLength(Tail(s))

\* NewBuffer with data.length, the number of characters, for its length
NewBufferCharCount(data) == [bytes |-> data.s, length |-> Len(data.s)]

\* new Buffer(data) of a string
NewBuffer(data) == [bytes |-> data.s, length |-> ByteLength(data.s)]

\* Headers with the token taken as this.accessToken || options.accessToken
HeadersClientTokenFirst(this, data, options) ==
    LET accessToken == Or(this.accessToken, Prop(options, K_accessToken))
    IN  <<<<"Accept",
            Or(Prop(options, K_accept),
               Text("application/vnd.speakap.api-v" \o this.apiVersion.x \o "+json"))>>>>
        \o (IF Truthy(accessToken)
            THEN <<<<"Authorization", Text("Bearer " \o accessToken.x)>>>>
            ELSE <<>>)
        \o (IF Truthy(data)
            THEN <<<<"Content-length", Num(NewBuffer(data).length)>>,
                   <<"Content-type",
                     Text(Or(Prop(options, K_contentType), Text("application/json")).x
                          \o "; charset=utf-8")>>>>
            ELSE <<>>)

\* the headers request() builds
Headers(this, data, options) ==
    LET accessToken == Or(Prop(options, K_accessToken), this.accessToken)
    IN  <<<<"Accept",
            Or(Prop(options, K_accept),
               Text("application/vnd.speakap.api-v" \o this.apiVersion.x \o "+json"))>>>>
        \o (IF Truthy(accessToken)
            THEN <<<<"Authorization", Text("Bearer " \o accessToken.x)>>>>
            ELSE <<>>)
        \o (IF Truthy(data)
            THEN <<<<"Content-length", Num(NewBuffer(data).length)>>,
                   <<"Content-type",
                     Text(Or(Prop(options, K_contentType), Text("application/json")).x
                          \o "; charset=utf-8")>>>>
            ELSE <<>>)

\* req.end()
EndRequest(r) == [r EXCEPT !.ends = @ + 1]

\* this.scheme.request({headers, hostname, method, path}, ...): one more request issued
IssueRequest(r, this, method, path, headers) ==
    [r EXCEPT !.requests = Append(@, [scheme |-> this.scheme, hostname |-> this.hostname,
                                      method |-> method, path |-> path,
                                      headers |-> headers])]

\* the call before any operation was invoked on it
IdleCall ==
    [op |-> "none", args |-> Undefined, threw |-> FALSE, supplied |-> FALSE,
     this |-> Undefined, options |-> Undefined, callback |-> Undefined,
     requests |-> <<>>, written |-> <<>>, ends |-> 0,
     res |-> "none", statusCode |-> 0, responseBody |-> <<>>, received |-> <<>>,
     errored |-> FALSE, requestError |-> Undefined, callbacks |-> <<>>]

\* request that stores the token it used on the API object
requestKeepsToken(this, method, path, data, options0, callback0) ==
    LET shift == ~IsObject(options0) \/ IsFunction(options0)
        callback == IF shift THEN options0 ELSE callback0
        options == IF shift THEN Obj(<<>>) ELSE options0
        headers == Headers(this, data, options)
        kept == [this EXCEPT !.accessToken = Or(Prop(options, K_accessToken), @)]
        issued == IssueRequest([IdleCall EXCEPT !.this = kept, !.options = options0,
                                                !.callback = callback],
                               this, method, path, headers)
        sent == IF Truthy(data)
                THEN [issued EXCEPT !.written = Append(@, NewBuffer(data))]
                ELSE issued
    IN  EndRequest(sent)

\* API.prototype.request(method, path, data, options, callback) up to its return
request(this, method, path, data, options0, callback0) ==
    LET shift == ~IsObject(options0) \/ IsFunction(options0)
        callback == IF shift THEN options0 ELSE callback0
        options == IF shift THEN Obj(<<>>) ELSE options0
        headers == Headers(this, data, options)
        issued == IssueRequest([IdleCall EXCEPT !.this = this, !.options = options0,
                                                !.callback = callback],
                               this, method, path, headers)
        sent == IF Truthy(data)
                THEN [issued EXCEPT !.written = Append(@, NewBuffer(data))]
                ELSE issued
    IN  EndRequest(sent)

\* the methods _.extend puts on API.prototype
PrototypeMethods == {"delete", "get", "post", "postAction", "put", "request"}

\* this[name](method, path, data, options, callback) for the request method: calling a
\* property API.prototype does not have throws a TypeError before any request is built
Dispatch(this, name, method, path, data, options, callback) ==
    IF name \in PrototypeMethods
    THEN request(this, method, path, data, options, callback)
    ELSE [IdleCall EXCEPT !.this = this, !.options = options, !.threw = TRUE]

\* _.extend(target, source) of plain objects; a source that has no own properties
\* (a function, an array of none) adds nothing
RECURSIVE ExtendPairs(_, _)
ExtendPairs(target, source) ==
    IF source = <<>> THEN target
    ELSE ExtendPairs(SetKey(target, Head(source)[1], Head(source)[2]), Tail(source))
Extend(target, source) ==
    IF source.t = "obj" THEN Obj(ExtendPairs(target.o, source.o)) ELSE target

\* the form encoding postAction applies to its data
FormEncode(data) ==
    IF Truthy(data)
    THEN Str(Join([i \in 1..Len(data.o) |->
                     EncodeURIComponent(Str(data.o[i][1])) \o <<"=">>
                     \o EncodeURIComponent(data.o[i][2])], <<"&">>))
    ELSE data

\* API.prototype["delete"], get, post, postAction, put
delete(this, path, options, callback) ==
    Dispatch(this, "request", Text("DELETE"), path, Null, options, callback)
get(this, path, options, callback) ==
    Dispatch(this, "request", Text("GET"), path, Null, options, callback)
post(this, path, data, options, callback) ==
    Dispatch(this, "request", Text("POST"), path, JSONStringify(data), options, callback)
postAction(this, path, data, options0, callback0) ==
    LET shift == ~IsObject(options0) \/ IsFunction(options0)
        callback == IF shift THEN options0 ELSE callback0
        options == IF shift THEN Obj(<<>>) ELSE options0
    IN  [Dispatch(this, "_request", Text("POST"), path, FormEncode(data),
                  Extend(Obj(<<<<K_contentType, Text("application/x-www-form-urlencoded")>>>>),
                         options),
                  callback)
         EXCEPT !.options = options0]
put(this, path, data, options, callback) ==
    Dispatch(this, "_request", Text("PUT"), path, JSONStringify(data), options, callback)

\* OnData with = for +=: the chunks received before are lost
OnDataOverwrite(responseBody, chunk) == chunk

\* res.on("data", ...): responseBody += chunk
OnData(responseBody, chunk) == responseBody \o chunk

\* OnEnd with the success range taken as 200..300
OnEndUpTo300(statusCode, responseBody) ==
    IF statusCode = 204 THEN <<Null, Bool(TRUE)>>
    ELSE IF ~JSONParse(responseBody).ok
         THEN <<Obj(<<<<K_code, Num(-1001)>>,
                      <<K_message, Text("Unexpected Reply")>>,
                      <<K_description, Str(responseBody)>>>>),
                Null>>
    ELSE IF statusCode >= 200 /\ statusCode <= 300
         THEN <<Null, JSONParse(responseBody).v>>
    ELSE <<JSONParse(responseBody).v, Null>>

\* res.on("end", ...): the (error, result) the callback is called with
OnEnd(statusCode, responseBody) ==
    IF statusCode = 204 THEN <<Null, Bool(TRUE)>>
    ELSE IF ~JSONParse(responseBody).ok
         THEN <<Obj(<<<<K_code, Num(-1001)>>,
                      <<K_message, Text("Unexpected Reply")>>,
                      <<K_description, Str(responseBody)>>>>),
                Null>>
    ELSE IF statusCode >= 200 /\ statusCode < 300
         THEN <<Null, JSONParse(responseBody).v>>
    ELSE <<JSONParse(responseBody).v, Null>>

\* OnError with the transport failure reported under the code of a parse failure
OnErrorParseCode(error) ==
    <<Obj(<<<<K_code, Num(-1001)>>,
            <<K_message, Text("Request Failed")>>,
            <<K_requestError, error>>>>)>>

\* req.on("error", ...): the arguments the callback is called with
OnError(error) ==
    <<Obj(<<<<K_code, Num(-1000)>>,
            <<K_message, Text("Request Failed")>>,
            <<K_requestError, error>>>>)>>

\* if (callback) { callback(args) }
CallBack(r, from, args) ==
    IF Truthy(r.callback)
    THEN [r EXCEPT !.callbacks = Append(@, [from |-> from, args |-> args])]
    ELSE r

(***************************************************************************)
(* API calls: the callers, the transport, the server                       *)
(***************************************************************************)
MaxChunks == 2

CallIds == {1}

Configs ==
    {[scheme |-> Text("https"), hostname |-> Text("api.speakap.io"),
      appId |-> Text("app"), appSecret |-> Text("sec"), apiVersion |-> Undefined],
     [scheme |-> Text("http"), hostname |-> Text("localhost"),
      appId |-> Text("app"), appSecret |-> Undefined, apiVersion |-> Text("1.0")],
     [scheme |-> Text("ftp"), hostname |-> Text("api.speakap.io"),
      appId |-> Text("app"), appSecret |-> Text("sec"), apiVersion |-> Undefined],
     [scheme |-> Text("HTTPS"), hostname |-> Text("api.speakap.io"),
      appId |-> Text("app"), appSecret |-> Text("sec"), apiVersion |-> Undefined],
     [scheme |-> Undefined, hostname |-> Text("api.speakap.io"),
      appId |-> Text("app"), appSecret |-> Text("sec"), apiVersion |-> Undefined]}

Overrides ==
    Obj(<<<<K_accept, Text("text/plain")>>, <<K_accessToken, Text("tok")>>,
          <<K_contentType, Text("text/xml")>>>>)

\* the (options, callback) arguments a caller passes
ArgShapes ==
    {[options |-> Obj(<<>>), callback |-> Fn(1)],
     [options |-> Overrides, callback |-> Fn(1)],
     [options |-> Fn(1), callback |-> Undefined],
     [options |-> Null, callback |-> Fn(1)],
     [options |-> Undefined, callback |-> Undefined]}

\* the data a caller passes to post, put and postAction
DataObjects == {Null, Obj(<<<<(<<"a">>), Str(<<"é", " ", "1">>)>>>>)}
\* the data a caller passes to request
DataStrings == {Null, Str(<<"{", "\"", "a", "\"", ":", "1", "}">>)}

Paths == {Text("/networks/42/user/7/")}

\* the chunks a response body arrives in
Chunk_null == <<"n", "u", "l", "l">>
Chunk_open == <<"[", "1">>
Chunk_close == <<"]">>
Chunk_error == <<"{", "\"", "c", "o", "d", "e", "\"", ":", "1", "}">>
Chunk_text == <<"x">>
Chunks == {Chunk_null, Chunk_open, Chunk_close, Chunk_error, Chunk_text}

StatusCodes == {199, 200, 204, 299, 300, 404}

TransportErrors == {Err("ECONNREFUSED"), Err("ENOTFOUND")}

InitApi ==
    /\ apiConfig \in Configs
    /\ client = API(apiConfig)
    /\ call = [c \in CallIds |-> IdleCall]
    /\ params = <<>>
    /\ now = 0
    /\ tampered = 0
    /\ vsResult = "none"
    /\ output = NoOutput
    /\ sessionStore = EmptyStore
    /\ reqs = <<>>
    /\ uuids = {}

\* the state of call c after the caller invoked an operation with result r: the call
\* keeps the arguments it was invoked with, the client is the object the operation leaves
Invoked(c, op, data, a, r) ==
    /\ client.constructed
    /\ call[c].op = "none"
    /\ call' = [call EXCEPT ![c] = [r EXCEPT !.op = op,
                                             !.args = [data |-> data, options |-> a.options,
                                                       callback |-> a.callback],
                                             !.supplied = IsFunction(a.options)
                                                          \/ IsFunction(a.callback)]]
    /\ client' = r.this
    /\ UNCHANGED <<params, now, tampered, vsResult, apiConfig, output, sessionStore, reqs, uuids>>

CallDelete(c, path, a) ==
    Invoked(c, "delete", Undefined, a, delete(client, path, a.options, a.callback))
CallGet(c, path, a) ==
    Invoked(c, "get", Undefined, a, get(client, path, a.options, a.callback))
CallPost(c, path, data, a) ==
    Invoked(c, "post", data, a, post(client, path, data, a.options, a.callback))
CallPostAction(c, path, data, a) ==
    Invoked(c, "postAction", data, a, postAction(client, path, data, a.options, a.callback))
CallPut(c, path, data, a) ==
    Invoked(c, "put", data, a, put(client, path, data, a.options, a.callback))
CallRequest(c, method, path, data, a) ==
    Invoked(c, "request", data, a, request(client, method, path, data, a.options, a.callback))

\* the transport calls the response callback: a response with its status line arrived
Response(c, statusCode) ==
    /\ call[c].ends > 0
    /\ call[c].res = "none"
    /\ ~call[c].errored
    /\ call' = [call EXCEPT ![c].res = "open", ![c].statusCode = statusCode,
                            ![c].responseBody = <<>>]
    /\ UNCHANGED <<client, params, now, tampered, vsResult, apiConfig, output, sessionStore, reqs, uuids>>

\* Data with one responseBody shared by all calls: the chunk is added to the body of
\* every open response
DataSharedBody(c, chunk) ==
    /\ call[c].res = "open"
    /\ Len(call[c].received) < MaxChunks
    /\ call' = [d \in DOMAIN call |->
                  IF d = c
                  THEN [call[d] EXCEPT !.responseBody = OnData(@, chunk),
                                       !.received = Append(@, chunk)]
                  ELSE IF call[d].res = "open"
                  THEN [call[d] EXCEPT !.responseBody = OnData(@, chunk)]
                  ELSE call[d]]
    /\ UNCHANGED <<client, params, now, tampered, vsResult, apiConfig, output, sessionStore, reqs, uuids>>

\* res emits "data"
Data(c, chunk) ==
    /\ call[c].res = "open"
    /\ Len(call[c].received) < MaxChunks
    /\ call' = [call EXCEPT ![c].responseBody = OnData(@, chunk),
                            ![c].received = Append(@, chunk)]
    /\ UNCHANGED <<client, params, now, tampered, vsResult, apiConfig, output, sessionStore, reqs, uuids>>

\* res emits "end"
End(c) ==
    /\ call[c].res = "open"
    /\ call' = [call EXCEPT ![c] =
                   CallBack([@ EXCEPT !.res = "ended"], "end",
                            OnEnd(call[c].statusCode, call[c].responseBody))]
    /\ UNCHANGED <<client, params, now, tampered, vsResult, apiConfig, output, sessionStore, reqs, uuids>>

\* RequestError with a retry: the handler issues the request again before reporting
RequestErrorRetry(c, error) ==
    /\ call[c].ends > 0
    /\ call[c].res \in {"none", "open"}
    /\ ~call[c].errored
    /\ call' = [call EXCEPT ![c] =
                   CallBack(EndRequest(IssueRequest([@ EXCEPT !.errored = TRUE,
                                                              !.requestError = error],
                                                    client, @.requests[1].method,
                                                    @.requests[1].path,
                                                    @.requests[1].headers)),
                            "error", OnError(error))]
    /\ UNCHANGED <<client, params, now, tampered, vsResult, apiConfig, output, sessionStore, reqs, uuids>>

\* req emits "error": the connection failed before the response, or broke while the
\* body was arriving (res may still emit "end" for what was received)
RequestError(c, error) ==
    /\ call[c].ends > 0
    /\ call[c].res \in {"none", "open"}
    /\ ~call[c].errored
    /\ call' = [call EXCEPT ![c] = CallBack([@ EXCEPT !.errored = TRUE,
                                                       !.requestError = error],
                                            "error", OnError(error))]
    /\ UNCHANGED <<client, params, now, tampered, vsResult, apiConfig, output, sessionStore, reqs, uuids>>

Next ==
    \/ \E c \in CallIds, path \in Paths, a \in ArgShapes : CallDelete(c, path, a)
    \/ \E c \in CallIds, path \in Paths, a \in ArgShapes : CallGet(c, path, a)
    \/ \E c \in CallIds, path \in Paths, data \in DataObjects, a \in ArgShapes :
          CallPost(c, path, data, a)
    \/ \E c \in CallIds, path \in Paths, data \in DataObjects, a \in ArgShapes :
          CallPostAction(c, path, data, a)
    \/ \E c \in CallIds, path \in Paths, data \in DataObjects, a \in ArgShapes :
          CallPut(c, path, data, a)
    \/ \E c \in CallIds, path \in Paths, data \in DataStrings, a \in ArgShapes :
          CallRequest(c, Text("PATCH"), path, data, a)
    \/ \E c \in CallIds, statusCode \in StatusCodes : Response(c, statusCode)
    \/ \E c \in CallIds, chunk \in Chunks : Data(c, chunk)
    \/ \E c \in CallIds : End(c)
    \/ \E c \in CallIds, error \in TransportErrors : RequestError(c, error)

Spec == InitApi /\ [][Next]_vars

(***************************************************************************)
(* Two calls on one client, in sequence or in flight together              *)
(***************************************************************************)
TwoCalls == {1, 2}

\* call c is made with its own callback, with or without per-call overrides
ArgsOf(c) == {[options |-> o, callback |-> Fn(c)] : o \in {Obj(<<>>), Overrides}}

InitTwoCalls ==
    /\ apiConfig \in {cfg \in Configs : cfg.scheme = Text("https")}
    /\ client = API(apiConfig)
    /\ call = [c \in TwoCalls |-> IdleCall]
    /\ params = <<>>
    /\ now = 0
    /\ tampered = 0
    /\ vsResult = "none"
    /\ output = NoOutput
    /\ sessionStore = EmptyStore
    /\ reqs = <<>>
    /\ uuids = {}

NextTwoCalls ==
    \/ \E c \in TwoCalls, path \in Paths : \E a \in ArgsOf(c) : CallGet(c, path, a)
    \/ \E c \in TwoCalls, path \in Paths : \E a \in ArgsOf(c) :
          CallPost(c, path, Obj(<<<<(<<"a">>), Str(<<"1">>)>>>>), a)
    \/ \E c \in TwoCalls, path \in Paths : \E a \in ArgsOf(c) :
          CallPostAction(c, path, Obj(<<<<(<<"a">>), Str(<<"1">>)>>>>), a)
    \/ \E c \in TwoCalls, statusCode \in {200, 404} : Response(c, statusCode)
    \/ \E c \in TwoCalls, chunk \in {Chunk_open, Chunk_close} : Data(c, chunk)
    \/ \E c \in TwoCalls : End(c)
    \/ \E c \in TwoCalls : RequestError(c, Err("ECONNREFUSED"))

SpecTwoCalls == InitTwoCalls /\ [][NextTwoCalls]_vars

(***************************************************************************)
(* Claims about the API wrapper                                            *)
(***************************************************************************)
\* a value is populated when it is neither null nor undefined
Populated(v) == v.t \notin {"null", "undefined"}

\* the i-th argument of a callback invocation; undefined when it was not passed
Arg(inv, i) == IF i <= Len(inv.args) THEN inv.args[i] ELSE Undefined

\* the invocations of call c's callback made by the handler `from`
Invocations(c, from) ==
    {i \in 1..Len(call[c].callbacks) : call[c].callbacks[i].from = from}

\* the raw body: all received chunks concatenated in arrival order
RawBody(c) == Join(call[c].received, <<>>)

\* the HTTP method each convenience operation stands for
MethodOf(op) ==
    CASE op = "delete" -> Text("DELETE")
      [] op = "get" -> Text("GET")
      [] op = "post" -> Text("POST")
      [] op = "postAction" -> Text("POST")
      [] op = "put" -> Text("PUT")
      [] op = "request" -> Text("PATCH")

\* C4: every call of get, delete, post, put, postAction and request on a constructed
\* client enters the request pipeline and issues an HTTP request with the corresponding
\* method; none fails before the pipeline is entered.
C4_EveryOperationIssuesRequest ==
    \A c \in DOMAIN call :
        call[c].op # "none" =>
            /\ ~call[c].threw
            /\ Len(call[c].requests) = 1
            /\ call[c].requests[1].method = MethodOf(call[c].op)

\* C5: in every invocation of a call's callback exactly one of (error, result) is
\* populated, for every status code and every response body.
C5_ExactlyOnePopulated ==
    \A c \in DOMAIN call :
        \A i \in 1..Len(call[c].callbacks) :
            Populated(Arg(call[c].callbacks[i], 1)) # Populated(Arg(call[c].callbacks[i], 2))

\* C6: for every completed response the callback is called once by the end handler:
\* with (null, true) for status 204 whatever the body; with (null, parsed body) for any
\* other status in 200..299; with (parsed body, null) for every other status (the last
\* two when the body parses as JSON).
C6_ClassifiedByStatus ==
    \A c \in DOMAIN call :
        (call[c].res = "ended" /\ IsFunction(call[c].callback)) =>
            /\ Cardinality(Invocations(c, "end")) = 1
            /\ \A i \in Invocations(c, "end") :
                 LET inv == call[c].callbacks[i]
                     status == call[c].statusCode
                     body == JSONParse(RawBody(c))
                 IN  /\ status = 204 => inv.args = <<Null, Bool(TRUE)>>
                     /\ (status \in 200..299 /\ status # 204 /\ body.ok)
                           => inv.args = <<Null, body.v>>
                     /\ (status \notin 200..299 /\ body.ok) => inv.args = <<body.v, Null>>

\* a 204 response with a body that is not JSON was reported as (null, true)
C6_Witness ==
    \E c \in DOMAIN call :
        /\ call[c].res = "ended"
        /\ call[c].statusCode = 204
        /\ call[c].received = <<Chunk_text>>
        /\ \E i \in Invocations(c, "end") : call[c].callbacks[i].args = <<Null, Bool(TRUE)>>

\* C7: if the body does not parse as JSON (any status but 204), the callback receives an
\* error with code -1001 whose description is the complete raw body, all received
\* chunks concatenated in arrival order, and no result.
C7_UnexpectedReply ==
    \A c \in DOMAIN call :
        (/\ call[c].res = "ended"
         /\ IsFunction(call[c].callback)
         /\ call[c].statusCode # 204
         /\ ~JSONParse(RawBody(c)).ok) =>
            /\ Invocations(c, "end") # {}
            /\ \A i \in Invocations(c, "end") :
                 LET inv == call[c].callbacks[i]
                 IN  /\ Prop(Arg(inv, 1), K_code) = Num(-1001)
                     /\ Prop(Arg(inv, 1), K_description) = Str(RawBody(c))
                     /\ ~Populated(Arg(inv, 2))

\* a 200 response whose body arrived as "]" then "[1" was reported as unparseable
C7_Witness ==
    \E c \in DOMAIN call :
        /\ call[c].res = "ended"
        /\ call[c].statusCode = 200
        /\ call[c].received = <<Chunk_close, Chunk_open>>
        /\ \E i \in Invocations(c, "end") :
              Prop(Arg(call[c].callbacks[i], 1), K_description)
                 = Str(<<"]", "[", "1">>)

\* C8: a request 'error' event yields an error with code -1000, which is not the
\* parse-failure code -1001, carrying the transport's error, and no result.
C8_RequestFailed ==
    \A c \in DOMAIN call :
        (call[c].errored /\ IsFunction(call[c].callback)) =>
            /\ Cardinality(Invocations(c, "error")) = 1
            /\ \A i \in Invocations(c, "error") :
                 LET inv == call[c].callbacks[i]
                 IN  /\ Prop(Arg(inv, 1), K_code) = Num(-1000)
                     /\ Prop(Arg(inv, 1), K_code) # Num(-1001)
                     /\ Prop(Arg(inv, 1), K_requestError) = call[c].requestError
                     /\ ~Populated(Arg(inv, 2))

\* a refused connection was reported to the callback
C8_Witness ==
    \E c \in DOMAIN call :
        /\ call[c].errored
        /\ call[c].requestError = Err("ECONNREFUSED")
        /\ Invocations(c, "error") # {}

\* the call failed: the transport failed, or the response ended with a status outside
\* 200..299 or with a body that does not parse
Failed(c) ==
    \/ call[c].errored
    \/ /\ call[c].res = "ended"
       /\ \/ call[c].statusCode \notin 200..299
          \/ call[c].statusCode # 204 /\ ~JSONParse(RawBody(c)).ok

\* C9: every failure of an API call reaches the caller as a populated error, whether or
\* not a callback argument was supplied.
C9_FailureReported ==
    \A c \in DOMAIN call :
        Failed(c) => \E i \in 1..Len(call[c].callbacks) :
                        Populated(Arg(call[c].callbacks[i], 1))

\* C10: each call that enters the pipeline issues exactly one HTTP request, ended once,
\* and issues no further request after a transport failure, an error status or an
\* unparseable body.
C10_OneRequestPerCall ==
    \A c \in DOMAIN call :
        (call[c].op # "none" /\ ~call[c].threw) =>
            /\ Len(call[c].requests) = 1
            /\ call[c].ends = 1

\* a call whose connection broke and whose response ended with an error status and an
\* unparseable body still has its one request
C10_Witness ==
    \E c \in DOMAIN call :
        /\ call[c].errored
        /\ call[c].res = "ended"
        /\ call[c].statusCode = 404
        /\ ~JSONParse(RawBody(c)).ok
        /\ Len(call[c].requests) = 1
        /\ call[c].ends = 1

(***************************************************************************)
(* Claims about validateSignature                                          *)
(***************************************************************************)
\* the supplied signature is the digest of the canonical string under the app secret
SignatureMatches(ps) ==
    Lookup(ps, SIGNATURE) = Str(HmacSha256Base64(AppSecret, QueryString(ps)))

\* issuedAt is a valid instant and t <= issuedAt + 60000
FreshAt(ps, t) ==
    LET issuedAt == GetTime(Lookup(ps, ISSUED_AT))
    IN  issuedAt.valid /\ t <= issuedAt.ms + 60000

\* C1: validateSignature returns normally if and only if the recomputed digest equals
\* params.signature and now <= issuedAt + 60000 ms.
C1_ReturnsIffSignedAndFresh ==
    vsResult # "none" =>
        ((vsResult = "ok") <=> (SignatureMatches(params) /\ FreshAt(params, now)))

\* C2: changing the value of any key other than the signature after signing makes
\* validateSignature fail with the invalid-signature error.
C2_TamperDetected ==
    [][(SignatureMatches(params) /\ tampered' = tampered + 1)
        => validateSignature(params', AppSecret, now') = "Invalid signature"]_vars

\* C3: validateSignature never returns normally for a payload whose issuedAt is absent
\* or is not a valid instant.
C3_InvalidIssuedAtFails ==
    vsResult = "ok" => GetTime(Lookup(params, ISSUED_AT)).valid

(***************************************************************************)
(* Claims about the headers and the body of a request                      *)
(***************************************************************************)
\* the header `name` of a request, undefined when the request does not carry it
Header(req, name) ==
    IF \E i \in 1..Len(req.headers) : req.headers[i][1] = name
    THEN req.headers[CHOOSE i \in 1..Len(req.headers) : req.headers[i][1] = name][2]
    ELSE Undefined

\* the number of headers `name` of a request
HeaderCount(req, name) == Cardinality({i \in 1..Len(req.headers) : req.headers[i][1] = name})

\* the override `key` the caller of call c gave in its options argument, if any
Override(c, key) == Prop(call[c].args.options, key)

\* the token of the client: appId + "_" + appSecret, only when both are configured
ClientToken ==
    IF Truthy(apiConfig.appId) /\ Truthy(apiConfig.appSecret)
    THEN Text(apiConfig.appId.x \o "_" \o apiConfig.appSecret.x)
    ELSE Undefined

\* C11: every request issued carries Authorization: Bearer <t>, where t is the per-call
\* options.accessToken when the caller gave one and the client token appId_appSecret
\* otherwise; when neither exists the request has no Authorization header.
C11_BearerToken ==
    \A c \in DOMAIN call : \A i \in 1..Len(call[c].requests) :
        LET req == call[c].requests[i]
            t == IF Truthy(Override(c, K_accessToken)) THEN Override(c, K_accessToken)
                 ELSE ClientToken
        IN  IF Truthy(t)
            THEN /\ HeaderCount(req, "Authorization") = 1
                 /\ Header(req, "Authorization") = Text("Bearer " \o t.x)
            ELSE HeaderCount(req, "Authorization") = 0

\* a client that has a token of its own issued a request with the token of the call
C11_Witness ==
    \E c \in DOMAIN call :
        /\ Len(call[c].requests) = 1
        /\ Truthy(ClientToken)
        /\ Truthy(Override(c, K_accessToken))
        /\ Override(c, K_accessToken) # ClientToken
        /\ Header(call[c].requests[1], "Authorization") = Text("Bearer tok")

\* C12: a request carries a Content-length header exactly when a body is written to it,
\* and the value of the header is the number of bytes of the encoded body, not its
\* number of characters.
C12_ContentLength ==
    \A c \in DOMAIN call : \A i \in 1..Len(call[c].requests) :
        LET req == call[c].requests[i]
        IN  /\ Len(call[c].written) <= 1
            /\ HeaderCount(req, "Content-length") = Len(call[c].written)
            /\ Len(call[c].written) = 1 =>
                  Header(req, "Content-length") = Num(ByteLength(call[c].written[1].bytes))

\* a body with a two-byte character was written: its Content-length is above its
\* number of characters
C12_Witness ==
    \E c \in DOMAIN call :
        /\ Len(call[c].requests) = 1
        /\ Len(call[c].written) = 1
        /\ \E k \in 1..Len(call[c].written[1].bytes) : call[c].written[1].bytes[k] = "é"
        /\ Header(call[c].requests[1], "Content-length").n
             = Len(call[c].written[1].bytes) + 1

\* the operation of call c was invoked with data that makes a request body
HasBody(c) ==
    \/ call[c].op \in {"post", "put"}
    \/ call[c].op = "postAction" /\ Truthy(call[c].args.data)

\* a media type, bare or with the charset parameter request() appends
WithCharset(type) == {type, Text(type.x \o "; charset=utf-8")}

\* C13: with no per-call contentType, post and put send the Content-type
\* application/json; charset=utf-8 and postAction sends application/x-www-form-urlencoded;
\* a per-call options.contentType takes precedence in all three.
C13_ContentType ==
    \A c \in DOMAIN call :
        call[c].op \in {"post", "put", "postAction"} /\ HasBody(c) =>
            /\ Len(call[c].requests) = 1
            /\ HeaderCount(call[c].requests[1], "Content-type") = 1
            /\ Header(call[c].requests[1], "Content-type") \in
                 (IF Truthy(Override(c, K_contentType))
                  THEN WithCharset(Override(c, K_contentType))
                  ELSE IF call[c].op = "postAction"
                  THEN WithCharset(Text("application/x-www-form-urlencoded"))
                  ELSE {Text("application/json; charset=utf-8")})

(***************************************************************************)
(* Claims about the encoder                                                *)
(***************************************************************************)
\* the characters encodeURIComponent leaves alone that percentEncode is to escape
ExtraEscaped == {"!", "'", "(", ")", "*"}

\* C14: percentEncode escapes every occurrence of ! ' ( ) * in its input, repeated
\* occurrences included: its output never contains one of the five.
C14_EveryOccurrenceEscaped ==
    output.fn = "percentEncode" =>
        \A k \in 1..Len(output.result) : output.result[k] \notin ExtraEscaped

\* the key=value pair of `key` in the encoded form of payload ps
EncodedPair(ps, key) ==
    percentEncode(Str(key)) \o <<"=">> \o percentEncode(Lookup(ps, key))

\* C15: signedRequest(params) is the pairs of the keys other than signature in ascending
\* key order, followed by the signature pair as the last one when params has a signature;
\* when params has no signature key the output has no signature pair and is the
\* canonical string.
C15_SignaturePairOnlyWhenPresent ==
    output.fn = "signedRequest" =>
        LET ps == output.arg
            canonical == QueryString(ps)
        IN  output.result =
                IF ~HasKey(ps, SIGNATURE) THEN canonical
                ELSE IF canonical = <<>> THEN EncodedPair(ps, SIGNATURE)
                ELSE canonical \o <<"&">> \o EncodedPair(ps, SIGNATURE)

\* two payloads hold the same parameters, inserted in different orders
Permuted(ps, qs) ==
    /\ ps # qs
    /\ Len(ps) = Len(qs)
    /\ {ps[i] : i \in 1..Len(ps)} = {qs[i] : i \in 1..Len(qs)}

\* C16: the canonical string of a payload is the same under every permutation of the
\* insertion order of its parameters, so the outcome of the verification does not depend
\* on the order in which the parameters were inserted.
C16_OrderIndependent ==
    [][Permuted(params, params') =>
          /\ QueryString(params') = QueryString(params)
          /\ validateSignature(params', AppSecret, now)
               = validateSignature(params, AppSecret, now)]_vars

\* a signed payload whose parameters were reordered after signing (the signature is no
\* longer the last one inserted, the keys are not ascending) was verified and accepted
C16_Witness ==
    /\ vsResult = "ok"
    /\ Len(params) = 4
    /\ Keys(params)[1] = SIGNATURE
    /\ Keys(params)[4] = KeyA

(***************************************************************************)
(* Claims about the client and its calls                                   *)
(***************************************************************************)
\* C17: constructing a client with a scheme other than exactly "http" or "https" fails
\* at once: there is no client object and no request is ever issued; with "http" or
\* "https" the construction succeeds.
C17_SchemeChecked ==
    IF apiConfig.scheme \in {Text("http"), Text("https")}
    THEN client.constructed /\ ~client.threw
    ELSE /\ client.threw
         /\ DOMAIN client = {"constructed", "threw"}
         /\ ~client.constructed
         /\ \A c \in DOMAIN call : call[c].op = "none" /\ call[c].requests = <<>>

\* the construction with the scheme "ftp" threw
C17_Witness == apiConfig.scheme = Text("ftp") /\ client.threw

\* C18: calls in flight together are independent: the callback of each call receives
\* the outcome determined by the status code of its own response and the chunks of its
\* own body only, and the failure of its own connection only.
C18_OwnOutcome ==
    \A c \in DOMAIN call : \A i \in 1..Len(call[c].callbacks) :
        LET inv == call[c].callbacks[i]
        IN  /\ inv.from = "end" => inv.args = OnEnd(call[c].statusCode, RawBody(c))
            /\ inv.from = "error" => inv.args = OnError(call[c].requestError)

\* two responses were open together and received different chunks; the first ended and
\* reported the array of its own body while the second, an error response, is still open
C18_Witness ==
    /\ DOMAIN call = TwoCalls
    /\ call[1].res = "ended"
    /\ call[1].statusCode = 200
    /\ call[1].received = <<Chunk_open, Chunk_close>>
    /\ \E i \in Invocations(1, "end") :
          call[1].callbacks[i].args = <<Null, Arr(<<Num(1)>>)>>
    /\ call[2].res = "open"
    /\ call[2].statusCode = 404
    /\ call[2].received = <<Chunk_close, Chunk_open>>

\* the request of call c was built from the defaults of the client
UsesDefaults(c) ==
    LET req == call[c].requests[1]
    IN  /\ req.scheme = apiConfig.scheme
        /\ req.hostname = apiConfig.hostname
        /\ Header(req, "Accept") =
             Text("application/vnd.speakap.api-v"
                  \o (IF Truthy(apiConfig.apiVersion) THEN apiConfig.apiVersion.x ELSE "1.1")
                  \o "+json")
        /\ Header(req, "Authorization") =
             (IF Truthy(ClientToken) THEN Text("Bearer " \o ClientToken.x) ELSE Undefined)
        /\ Len(call[c].written) = 1 =>
             Header(req, "Content-type") = Text("application/json; charset=utf-8")

\* C19: no operation changes the client after its construction, the options object of
\* the caller is left as it was passed, and a call made without overrides uses the
\* defaults of the client whatever overrides other calls were given.
C19_ClientAndOptionsUnchanged ==
    /\ client = API(apiConfig)
    /\ \A c \in DOMAIN call :
          call[c].op # "none" =>
              /\ call[c].options = call[c].args.options
              /\ (call[c].args.options = Obj(<<>>) /\ Len(call[c].requests) = 1)
                    => UsesDefaults(c)

\* a call with all three overrides was made and answered, and a call without overrides
\* carries the token of the client
C19_Witness ==
    /\ DOMAIN call = TwoCalls
    /\ call[1].op = "get"
    /\ call[1].args.options = Overrides
    /\ Header(call[1].requests[1], "Authorization") = Text("Bearer tok")
    /\ call[1].res = "ended"
    /\ call[2].op = "post"
    /\ call[2].args.options = Obj(<<>>)
    /\ call[2].res = "none"
    /\ Header(call[2].requests[1], "Authorization") = Text("Bearer app_sec")

\* C20: the callback of a call is invoked at most once, whatever the order in which the
\* data, end and error events of the call arrive.
C20_CallbackAtMostOnce ==
    \A c \in DOMAIN call : Len(call[c].callbacks) <= 1

(***************************************************************************)
(* Claims about the order of the checks of validateSignature               *)
(***************************************************************************)
\* issuedAt is a valid instant and t is after issuedAt + 60000
PastWindowAt(ps, t) ==
    LET issuedAt == GetTime(Lookup(ps, ISSUED_AT))
    IN  issuedAt.valid /\ t > issuedAt.ms + 60000

\* C21: validateSignature checks the signature before the window: a payload whose
\* signature does not match fails with the invalid-signature error, also when its window
\* has passed; the expired-signature error is raised only for a payload whose signature
\* matched.
C21_SignatureBeforeWindow ==
    vsResult # "none" =>
        /\ ~SignatureMatches(params) => vsResult = "Invalid signature"
        /\ vsResult = "Expired signature" => SignatureMatches(params)

\* a payload that carries a signature which does not match, checked after its window
\* has passed, failed with the invalid-signature error
C21_Witness ==
    /\ vsResult = "Invalid signature"
    /\ HasKey(params, SIGNATURE)
    /\ ~SignatureMatches(params)
    /\ PastWindowAt(params, now)

(***************************************************************************)
(* Session middleware: create, validate, the session store                 *)
(***************************************************************************)
K_cookie == <<"c", "o", "o", "k", "i", "e">>
K_maxAge == <<"m", "a", "x", "A", "g", "e">>
K_id == <<"i", "d">>
K_locale == <<"l", "o", "c", "a", "l", "e">>
K_networkId == <<"n", "e", "t", "w", "o", "r", "k", "I", "d">>
K_networkEID == <<"n", "e", "t", "w", "o", "r", "k", "E", "I", "D">>
K_role == <<"r", "o", "l", "e">>
K_signedRequest == <<"s", "i", "g", "n", "e", "d", "R", "e", "q", "u", "e", "s", "t">>
K_userId == <<"u", "s", "e", "r", "I", "d">>
K_userEID == <<"u", "s", "e", "r", "E", "I", "D">>

ONE_WEEK == 7 * 24 * 60 * 60 * 1000

\* sessionStore.set(sid, sess) without a callback: the session is serialised and the write
\* is sent to the store
StoreSet(store, sid, sess) ==
    [store EXCEPT !.pending = @ \cup {[key |-> JsString(sid), value |-> JSONStringify(sess).s]}]

\* the store holds a session under key
Held(store, key) == \E d \in store.data : d.key = key

\* the (error, session) pairs sessionStore.get(sid, callback) may call back with: the
\* lookup fails, or it gives the parsed session held under sid, or nothing
StoreGetReplies(store, sid) ==
    {[error |-> Err("ECONNREFUSED"), session |-> Undefined]}
    \cup (IF Held(store, JsString(sid))
          THEN {[error |-> Null, session |-> JSONParse(d.value).v] :
                  d \in {e \in store.data : e.key = JsString(sid)}}
          ELSE {[error |-> Undefined, session |-> Undefined]})

\* a request the middleware has not seen; session undefined is req.session not set
IdleReq ==
    [kind |-> "none", body |-> Undefined, token |-> Undefined, session |-> Undefined,
     lookup |-> "none", reply |-> Undefined, nexts |-> <<>>]

\* next(error)
NextWith(req, error) == [req EXCEPT !.nexts = Append(@, <<error>>)]

\* the session object create builds for req, with the value uuid.v4() returned
NewSession(req, id) ==
    Obj(<<<<K_cookie, Obj(<<<<K_maxAge, Num(ONE_WEEK)>>>>)>>,
          <<K_id, id>>,
          <<K_locale, Prop(req.body, K_locale)>>,
          <<K_networkId, Prop(req.body, K_networkEID)>>,
          <<K_role, Prop(req.body, K_role)>>,
          <<K_signedRequest, Str(signedRequest(req.body.o))>>,
          <<K_userId, Prop(req.body, K_userEID)>>>>)

\* create that stores the session under session.userId
createUnderUserId(req, store, id) ==
    LET session == NewSession(req, id)
    IN  [store |-> StoreSet(store, Prop(session, K_userId), session),
         req |-> [req EXCEPT !.session = session]]

\* create(req, res, next), id being the value uuid.v4() returns: the request and the
\* store as create leaves them
create(req, store, id) ==
    LET session == NewSession(req, id)
    IN  [store |-> StoreSet(store, Prop(session, K_id), session),
         req |-> [req EXCEPT !.session = session]]

\* validate(req, res, next) up to its return: the lookup of the Session-Token header
validate(req) == [req EXCEPT !.lookup = "pending"]

\* the callback validate passes to sessionStore.get
OnGet(req, error, session) ==
    IF Truthy(error) THEN NextWith(req, error)
    ELSE IF Truthy(session) THEN [req EXCEPT !.session = session]
    ELSE NextWith(req, Str(<<"I", "n", "v", "a", "l", "i", "d", " ", "T", "o", "k", "e", "n",
                             ":", " ">> \o JsString(req.token)))

ReqIds == {1, 2, 3}

Uuids == {Str(<<"u", "1">>), Str(<<"u", "2">>)}

\* the bodies of the signed requests: all fields and a signature, or the user only
Bodies ==
    {Obj(<<<<K_locale, Str(<<"e", "n">>)>>, <<K_networkEID, Str(<<"n", "1">>)>>,
           <<K_role, Str(<<"r">>)>>, <<K_userEID, Str(<<"u">>)>>,
           <<SIGNATURE, Str(<<"s">>)>>>>),
     Obj(<<<<K_userEID, Str(<<"u">>)>>>>)}

\* the Session-Token headers clients present: a session id, a user id, or none
Tokens == Uuids \cup {Str(<<"u">>), Undefined}

InitSession ==
    /\ sessionStore = EmptyStore
    /\ reqs = [r \in ReqIds |-> IdleReq]
    /\ uuids = {}
    /\ params = <<>>
    /\ now = 0
    /\ tampered = 0
    /\ vsResult = "none"
    /\ client = NoClient
    /\ call = <<>>
    /\ apiConfig = NoConfig
    /\ output = NoOutput

\* Express calls create for a signed request; uuid.v4() returns an id it never returned
Create(r, body, id) ==
    /\ reqs[r].kind = "none"
    /\ id \notin uuids
    /\ LET done == create([reqs[r] EXCEPT !.kind = "create", !.body = body], sessionStore, id)
       IN  /\ reqs' = [reqs EXCEPT ![r] = done.req]
           /\ sessionStore' = done.store
    /\ uuids' = uuids \cup {id}
    /\ UNCHANGED <<params, now, tampered, vsResult, client, call, apiConfig, output>>

\* the store carries out a write
StoreApply(e) ==
    /\ e \in sessionStore.pending
    /\ sessionStore' = [data |-> {d \in sessionStore.data : d.key # e.key} \cup {e},
                        pending |-> sessionStore.pending \ {e}]
    /\ UNCHANGED <<params, now, tampered, vsResult, client, call, apiConfig, output, reqs, uuids>>

\* a write fails; set was given no callback, so nobody is told
StoreLose(e) ==
    /\ e \in sessionStore.pending
    /\ sessionStore' = [sessionStore EXCEPT !.pending = @ \ {e}]
    /\ UNCHANGED <<params, now, tampered, vsResult, client, call, apiConfig, output, reqs, uuids>>

\* the maxAge of a session passes: the store drops it
Expire(e) ==
    /\ e \in sessionStore.data
    /\ sessionStore' = [sessionStore EXCEPT !.data = @ \ {e}]
    /\ UNCHANGED <<params, now, tampered, vsResult, client, call, apiConfig, output, reqs, uuids>>

\* Express calls validate for a request that presents token
ValidateToken(r, token) ==
    /\ reqs[r].kind = "none"
    /\ reqs' = [reqs EXCEPT ![r] = validate([@ EXCEPT !.kind = "validate", !.token = token])]
    /\ UNCHANGED <<params, now, tampered, vsResult, client, call, apiConfig, output,
                   sessionStore, uuids>>

\* the store answers the lookup of request r
GetReply(r, reply) ==
    /\ reqs[r].lookup = "pending"
    /\ reply \in StoreGetReplies(sessionStore, reqs[r].token)
    /\ reqs' = [reqs EXCEPT ![r] = OnGet([@ EXCEPT !.lookup = "done", !.reply = reply],
                                         reply.error, reply.session)]
    /\ UNCHANGED <<params, now, tampered, vsResult, client, call, apiConfig, output,
                   sessionStore, uuids>>

NextSession ==
    \/ \E r \in ReqIds, body \in Bodies, id \in Uuids : Create(r, body, id)
    \/ \E e \in sessionStore.pending : StoreApply(e)
    \/ \E e \in sessionStore.pending : StoreLose(e)
    \/ \E e \in sessionStore.data : Expire(e)
    \/ \E r \in ReqIds, token \in Tokens : ValidateToken(r, token)
    \/ \E r \in ReqIds : \E reply \in StoreGetReplies(sessionStore, reqs[r].token) :
          GetReply(r, reply)

SpecSession == InitSession /\ [][NextSession]_vars

(***************************************************************************)
(* Claims about the session middleware                                     *)
(***************************************************************************)
SessionKeys ==
    {K_cookie, K_id, K_locale, K_networkId, K_role, K_signedRequest, K_userId}

\* two sessions have the same value for every property of a session
SameSession(a, b) ==
    /\ a.t = "obj"
    /\ b.t = "obj"
    /\ \A key \in SessionKeys : Prop(a, key) = Prop(b, key)

\* the sessions create made with the id `id`
CreatedWith(id) ==
    {reqs[q].session : q \in {q \in DOMAIN reqs : /\ reqs[q].kind = "create"
                                                  /\ Prop(reqs[q].session, K_id) = id}}

\* C22: create always makes a new session with a fresh id, sends it to the store under
\* that id and attaches it to req; validate attaches a session to req only when the store
\* holds one under the presented Session-Token, and then it is the session create stored
\* under that id; when the lookup errors or the store holds no session for the token,
\* req.session is not set and next is invoked with an error.
C22_SessionOfToken ==
    [][\A r \in DOMAIN reqs :
         /\ (reqs[r].kind = "none" /\ reqs'[r].kind = "create") =>
               LET session == reqs'[r].session
                   id == Prop(session, K_id)
               IN  /\ session.t = "obj"
                   /\ id.t = "str"
                   /\ id \notin uuids
                   /\ CreatedWith(id) = {}
                   /\ reqs'[r].nexts = <<>>
                   /\ \E e \in sessionStore'.pending \ sessionStore.pending :
                         /\ e.key = id.s
                         /\ JSONParse(e.value).ok
                         /\ SameSession(JSONParse(e.value).v, session)
         /\ (reqs[r].lookup = "pending" /\ reqs'[r].lookup = "done") =>
               LET token == reqs[r].token
                   reply == reqs'[r].reply
               IN  IF /\ ~Truthy(reply.error)
                      /\ token.t = "str"
                      /\ Held(sessionStore, token.s)
                   THEN /\ Prop(reqs'[r].session, K_id) = token
                        /\ \E created \in CreatedWith(token) :
                              SameSession(reqs'[r].session, created)
                        /\ reqs'[r].nexts = <<>>
                   ELSE /\ reqs'[r].session = Undefined
                        /\ Len(reqs'[r].nexts) = 1
                        /\ Populated(reqs'[r].nexts[1][1])
         /\ (reqs'[r].session # reqs[r].session) =>
               \/ reqs[r].kind = "none" /\ reqs'[r].kind = "create"
               \/ reqs[r].lookup = "pending" /\ reqs'[r].lookup = "done"]_vars

\* a request that presented the id of a session create made has that session attached,
\* the session with undefined fields included, and a request whose token the store held
\* no session for was passed to next with the invalid-token error and has no session
C22_Witness ==
    /\ DOMAIN reqs = ReqIds
    /\ \E r \in ReqIds :
          /\ reqs[r].kind = "validate"
          /\ reqs[r].lookup = "done"
          /\ Prop(reqs[r].session, K_id) = reqs[r].token
          /\ Prop(reqs[r].session, K_locale) = Undefined
          /\ \E created \in CreatedWith(reqs[r].token) : SameSession(reqs[r].session, created)
    /\ \E r \in ReqIds :
          /\ reqs[r].kind = "validate"
          /\ reqs[r].lookup = "done"
          /\ reqs[r].session = Undefined
          /\ reqs[r].reply.error = Undefined
          /\ Len(reqs[r].nexts) = 1
          /\ reqs[r].nexts[1][1].t = "str"

====
